---- MODULE Spec2Model ----
(***************************************************************************)
(* A model of qpcr/Filters/Filters.py: the Filter base class, RangeFilter, *)
(* IQRFilter and the module-level convenience function filter().           *)
(*                                                                         *)
(* Numbers.  Every float of the program (Ct values, anchors, limits,       *)
(* bounds) is a fixed-point integer counting hundredths: 1800 is 18.0.     *)
(* Raw Ct values are whole numbers and limits are multiples of 0.5, so     *)
(* medians, the 0.26/0.76 quantiles (linear interpolation) and the bounds  *)
(* are exact in hundredths.  float NaN is the value NaN below; arithmetic  *)
(* propagates it and every comparison with it is false.                    *)
(*                                                                         *)
(* Exceptions.  A call that raises leaves the name of the exception in     *)
(* last.err; "none" means the call returned.                               *)
(***************************************************************************)
EXTENDS Integers, Sequences, FiniteSets, TLC

VARIABLES
    self,     \* the filter instance: its class and attributes
    tables,   \* the qpcr.Assay objects: assay id -> dataframe (sequence of rows)
    last,     \* outcome of the most recent filter()/pipe() call
    calls,    \* number of Filter.filter()/Filter.pipe() calls made so far
    f         \* the filter instance the last call of the function filter() built

vars == <<self, tables, last, calls, f>>

----------------------------------------------------------------------------
(* Bounds of the model *)

MaxCalls == 2

MaxFnCalls == 1

----------------------------------------------------------------------------
(* Floats *)

NaN == -999999

IsNaN(x) == x = NaN

FAdd(a, b) == IF IsNaN(a) \/ IsNaN(b) THEN NaN ELSE a + b

FSub(a, b) == IF IsNaN(a) \/ IsNaN(b) THEN NaN ELSE a - b

\* a * b where b is in hundredths
FMul(a, b) == IF IsNaN(a) \/ IsNaN(b) THEN NaN ELSE (a * b) \div 100

FLt(a, b) == ~IsNaN(a) /\ ~IsNaN(b) /\ a < b

FGt(a, b) == ~IsNaN(a) /\ ~IsNaN(b) /\ a > b

----------------------------------------------------------------------------
(* numpy: median, nanmedian, nanquantile over a sequence of floats *)

RECURSIVE InsertSorted(_, _)
InsertSorted(x, s) ==
    IF s = <<>> THEN <<x>>
    ELSE IF x <= Head(s) THEN <<x>> \o s
    ELSE <<Head(s)>> \o InsertSorted(x, Tail(s))

RECURSIVE Sorted(_)
Sorted(s) == IF s = <<>> THEN <<>> ELSE InsertSorted(Head(s), Sorted(Tail(s)))

DropNaN(s) == SelectSeq(s, LAMBDA x : ~IsNaN(x))

HasNaN(s) == \E i \in 1..Len(s) : IsNaN(s[i])

\* median of sorted NaN-free values; NaN for no values
MedianSorted(x) ==
    IF Len(x) = 0 THEN NaN
    ELSE IF Len(x) % 2 = 1 THEN x[(Len(x) + 1) \div 2]
    ELSE (x[Len(x) \div 2] + x[Len(x) \div 2 + 1]) \div 2

\* np.median: a NaN among the values makes the median NaN
median(s) == IF HasNaN(s) THEN NaN ELSE MedianSorted(Sorted(s))

\* np.nanmedian: NaNs are left out; all-NaN gives NaN
nanmedian(s) == MedianSorted(Sorted(DropNaN(s)))

\* the q50/50 quantile of sorted NaN-free values, by linear interpolation
\* between the order statistics around position (n - 1) * q
QuantileSorted(x, q50) ==
    LET h == (Len(x) - 1) * q50
    IN  IF Len(x) = 0 THEN NaN
        ELSE IF h % 50 = 0 THEN x[h \div 50 + 1]
        ELSE x[h \div 50 + 1]
             + ((h % 50) * (x[h \div 50 + 2] - x[h \div 50 + 1])) \div 50

\* np.nanquantile(s, q50/50)
nanquantile(s, q50) == QuantileSorted(Sorted(DropNaN(s)), q50)

----------------------------------------------------------------------------
(* Python values *)

None == -1

\* keyword arguments of a call: the set of the keywords passed
Kwargs == {{}, {"k"}}

----------------------------------------------------------------------------
(* qpcr.Assay, the table a filter works on.  Its dataframe is a sequence   *)
(* of rows, each with a unique index, a replicate group and a Ct value.    *)

RECURSIVE SortedSeqOf(_)
SortedSeqOf(S) ==
    IF S = {} THEN <<>>
    ELSE LET m == CHOOSE x \in S : \A y \in S : x <= y
         IN  <<m>> \o SortedSeqOf(S \ {m})

\* Assay.groups(): the group ids present in the dataframe, ascending
Assay_groups(df) == SortedSeqOf({df[i].group : i \in 1..Len(df)})

\* Assay.ignore(entries, drop): drop the rows with these indices, or set
\* their Ct to NaN and keep them
Assay_ignore(df, entries, drop) ==
    IF drop
    THEN SelectSeq(df, LAMBDA r : r.index \notin entries)
    ELSE [i \in 1..Len(df) |->
            IF df[i].index \in entries THEN [df[i] EXCEPT !.Ct = NaN] ELSE df[i]]

\* df.query(f"group == {group}")
QueryGroup(df, group) == SelectSeq(df, LAMBDA r : r.group = group)

\* tmp[Ct]
CtOf(tmp) == [i \in 1..Len(tmp) |-> tmp[i].Ct]

\* .index of the rows selected
IndexOf(rows) == [i \in 1..Len(rows) |-> rows[i].index]

\* a query that also selects the rows whose Ct is NaN
QueryFaulty_nan(tmp, lower, upper) ==
    IndexOf(SelectSeq(tmp, LAMBDA r : \/ FLt(r.Ct, lower)
                                      \/ FGt(r.Ct, upper)
                                      \/ IsNaN(r.Ct)))

\* list(tmp.query(f"{Ct} < {lower} or {Ct} > {upper}").index)
QueryFaulty(tmp, lower, upper) ==
    IndexOf(SelectSeq(tmp, LAMBDA r : FLt(r.Ct, lower) \/ FGt(r.Ct, upper)))

\* The query text is built by formatting the bounds into it.  A NaN bound
\* is formatted as the bare word nan, which the query either fails to
\* resolve as a name ("raise") or compares as a float NaN ("nan").
QueryOutcomes == {"raise", "nan"}

Range(s) == {s[i] : i \in 1..Len(s)}

----------------------------------------------------------------------------
(* Filter *)

\* Filter.__init__ plus the subclass __init__
NewFilter(cls) ==
    [cls            |-> cls,
     Assay          |-> None,
     ignore_nan     |-> TRUE,
     drop_outliers  |-> FALSE,
     upper          |-> IF cls = "RangeFilter" THEN 100 ELSE 150,
     lower          |-> IF cls = "RangeFilter" THEN 100 ELSE 150,
     anchor         |-> [k |-> "none", v |-> <<>>],
     faulty_indices |-> FALSE,
     before         |-> 0,
     after          |-> 0,
     filter_stats   |-> <<>>]

Filter_ignore_nan(s, bool) == [s EXCEPT !.ignore_nan = bool]

Filter_drop_outliers(s, bool) == [s EXCEPT !.drop_outliers = bool]

Filter_link(s, Assay) == [s EXCEPT !.Assay = Assay]

\* a reset that also empties the ledger
Filter_reset_clears(s) ==
    [s EXCEPT !.faulty_indices = TRUE, !.filter_stats = <<>>]

\* reset() assigns self._faulty_indices = []; the field records that the
\* attribute exists
Filter_reset(s) == [s EXCEPT !.faulty_indices = TRUE]

Filter_set_lim(s, lim, upper, lower) ==
    LET s1 == IF lim # None THEN [s EXCEPT !.upper = lim, !.lower = lim] ELSE s
        s2 == IF upper # None THEN [s1 EXCEPT !.upper = upper] ELSE s1
    IN  IF lower # None THEN [s2 EXCEPT !.lower = lower] ELSE s2

RangeFilter_set_anchor(s, anchor) == [s EXCEPT !.anchor = anchor]

\* a disposal that always masks, whatever drop_outliers says
Filter_filter_out_mask(s, df, faulty_indices) ==
    IF Len(faulty_indices) > 0
    THEN Assay_ignore(df, Range(faulty_indices), FALSE)
    ELSE df

Filter_filter_out(s, df, faulty_indices) ==
    IF Len(faulty_indices) > 0
    THEN Assay_ignore(df, Range(faulty_indices), s.drop_outliers)
    ELSE df

Filter_save_stats(stats, assay, group, anchor, upper, lower) ==
    Append(stats, [assay |-> assay, group |-> group, anchor |-> anchor,
                   upper |-> upper, lower |-> lower])

----------------------------------------------------------------------------
(* RangeFilter *)

\* bounds with the two limits exchanged
RangeFilter_set_bounds_swapped(s, anchor) ==
    [upper |-> FAdd(anchor, s.lower), lower |-> FSub(anchor, s.upper)]

RangeFilter_set_bounds(s, anchor) ==
    [upper |-> FAdd(anchor, s.upper), lower |-> FSub(anchor, s.lower)]

\* The anchor of a group: [err, val].  The anchor spec s.anchor is
\*   "none"      None
\*   "builtin"   a builtin function (its type is type(print)); the model's
\*               builtin is len, which takes no keyword arguments
\*   "seq"       a list, tuple or dict, v its entries for groups 0, 1, ...
\*   "num"       an int or float, v[1]
\*   "function"  a def or lambda: no branch of the if-chain takes it and
\*               the local variable anchor is read unbound
RangeFilter_get_anchor(s, kwargs, group, tmp) ==
    CASE s.anchor.k = "none" ->
            [err |-> "none", val |-> median(CtOf(tmp))]
      [] s.anchor.k = "builtin" ->
            IF kwargs = {} THEN [err |-> "none", val |-> 100 * Len(tmp)]
            ELSE [err |-> "TypeError", val |-> NaN]
      [] s.anchor.k = "seq" ->
            IF group + 1 \in 1..Len(s.anchor.v)
            THEN [err |-> "none", val |-> s.anchor.v[group + 1]]
            ELSE [err |-> "LookupError", val |-> NaN]
      [] s.anchor.k = "num" ->
            [err |-> "none", val |-> s.anchor.v[1]]
      [] OTHER ->
            [err |-> "UnboundLocalError", val |-> NaN]

\* The end of the loop body, the same in both classes: query the rows out
\* of the bounds, extend faulty_indices, save the stats.
\* acc = [err, faulty, stats] is what the loop has gathered so far.
GroupFlagged(s, group, q, acc, tmp, anchor, b) ==
    IF (IsNaN(b.upper) \/ IsNaN(b.lower)) /\ q = "raise"
    THEN [acc EXCEPT !.err = "UndefinedVariableError"]
    ELSE [acc EXCEPT
            !.faulty = @ \o QueryFaulty(tmp, b.lower, b.upper),
            !.stats = Filter_save_stats(@, s.Assay, group, anchor,
                                        b.upper, b.lower)]

\* the loop body of RangeFilter._filter once the anchor a = [err, val] is
\* resolved
RangeFilter_anchored(s, group, q, acc, tmp, a) ==
    IF a.err # "none" THEN [acc EXCEPT !.err = a.err]
    ELSE IF s.ignore_nan /\ IsNaN(a.val) THEN acc
    ELSE GroupFlagged(s, group, q, acc, tmp, a.val,
                      RangeFilter_set_bounds(s, a.val))

RangeFilter_group(s, df, group, kwargs, q, acc) ==
    RangeFilter_anchored(s, group, q, acc, QueryGroup(df, group),
        RangeFilter_get_anchor(s, kwargs, group, QueryGroup(df, group)))

\* the loop over the groups, left when a group raises
RECURSIVE RangeFilter_groups(_, _, _, _, _, _)
RangeFilter_groups(s, df, grps, kwargs, q, acc) ==
    IF grps = <<>> \/ acc.err # "none" THEN acc
    ELSE RangeFilter_groups(s, df, Tail(grps), kwargs, q,
            RangeFilter_group(s, df, Head(grps), kwargs, q, acc))

\* _filter around its loop, the same in both classes: the before snapshot,
\* then r = [err, faulty, stats] from the loop, then _filter_out and the
\* after snapshot unless the loop raised.  [self, tables, err, faulty]
FilterAround(s, tbl, r) ==
    IF r.err # "none"
    THEN [self   |-> [s EXCEPT !.before = @ + 1, !.filter_stats = r.stats],
          tables |-> tbl,
          err    |-> r.err,
          faulty |-> r.faulty]
    ELSE [self   |-> [s EXCEPT !.before = @ + 1, !.after = @ + 1,
                               !.filter_stats = r.stats],
          tables |-> [tbl EXCEPT
                        ![s.Assay] = Filter_filter_out(s, tbl[s.Assay], r.faulty)],
          err    |-> "none",
          faulty |-> r.faulty]

LoopStart(s) == [err |-> "none", faulty |-> <<>>, stats |-> s.filter_stats]

\* RangeFilter._filter: [self, tables, err, faulty]
RangeFilter_filter(s, tbl, kwargs, q) ==
    FilterAround(s, tbl,
        RangeFilter_groups(s, tbl[s.Assay], Assay_groups(tbl[s.Assay]),
                           kwargs, q, LoopStart(s)))

----------------------------------------------------------------------------
(* IQRFilter *)

IQRFilter_set_bounds(s, anchor, first, third) ==
    [upper |-> FAdd(anchor, FMul(FSub(third, first), s.upper)),
     lower |-> FSub(anchor, FMul(FSub(third, first), s.lower))]

\* the loop body of IQRFilter._filter once the anchor is computed
IQRFilter_anchored(s, group, q, acc, tmp, anchor) ==
    IF s.ignore_nan /\ IsNaN(anchor) THEN acc
    ELSE GroupFlagged(s, group, q, acc, tmp, anchor,
            IQRFilter_set_bounds(s, anchor, nanquantile(CtOf(tmp), 13),
                                 nanquantile(CtOf(tmp), 38)))

IQRFilter_group(s, df, group, q, acc) ==
    IQRFilter_anchored(s, group, q, acc, QueryGroup(df, group),
                       nanmedian(CtOf(QueryGroup(df, group))))

RECURSIVE IQRFilter_groups(_, _, _, _, _)
IQRFilter_groups(s, df, grps, q, acc) ==
    IF grps = <<>> \/ acc.err # "none" THEN acc
    ELSE IQRFilter_groups(s, df, Tail(grps), q,
            IQRFilter_group(s, df, Head(grps), q, acc))

\* IQRFilter._filter: [self, tables, err, faulty]
IQRFilter_filter(s, tbl, kwargs, q) ==
    FilterAround(s, tbl,
        IQRFilter_groups(s, tbl[s.Assay], Assay_groups(tbl[s.Assay]), q,
                         LoopStart(s)))

----------------------------------------------------------------------------
(* Filter.filter and Filter.pipe *)

\* a filter() that returns the missing table instead of raising
Filter_filter_silent(s, tbl, kwargs, q) ==
    IF s.Assay # None
    THEN IF s.cls = "RangeFilter"
         THEN RangeFilter_filter(s, tbl, kwargs, q)
         ELSE IQRFilter_filter(s, tbl, kwargs, q)
    ELSE [self |-> s, tables |-> tbl, err |-> "none", faulty |-> <<>>]

\* Filter.filter: [self, tables, err, faulty]
Filter_filter(s, tbl, kwargs, q) ==
    IF s.Assay # None
    THEN IF s.cls = "RangeFilter"
         THEN RangeFilter_filter(s, tbl, kwargs, q)
         ELSE IQRFilter_filter(s, tbl, kwargs, q)
    ELSE [self |-> s, tables |-> tbl, err |-> "FilterError(no_assay)",
          faulty |-> <<>>]

\* what pipe of one table returns, from filter's r = [self, tables, err,
\* faulty].  [self, tables, err, ret, faulty, trace]: ret the tables
\* returned, faulty the indices flagged in each table processed, trace the
\* dataframe each processed table was left with
PipeReturn(r) ==
    [self |-> r.self, tables |-> r.tables, err |-> r.err,
     ret |-> IF r.err = "none" THEN <<r.self.Assay>> ELSE <<>>,
     faulty |-> <<r.faulty>>,
     trace |-> IF r.err = "none" /\ r.self.Assay # None
               THEN <<r.tables[r.self.Assay]>> ELSE <<>>]

\* pipe of one table: link, then filter with the keyword arguments given
PipeOne(s, tbl, Assay, kwargs, q) ==
    PipeReturn(Filter_filter(Filter_link(s, Assay), tbl, kwargs, q))

\* the list built so far, with the next element's result r
PipeAppend(acc, r) ==
    [self |-> r.self, tables |-> r.tables, err |-> r.err,
     ret |-> acc.ret \o r.ret,
     faulty |-> acc.faulty \o r.faulty,
     trace |-> acc.trace \o r.trace]

\* the list comprehension [ self.pipe( assay ) for assay in Assay ]
RECURSIVE PipeEach(_, _, _)
PipeEach(acc, assays, q) ==
    IF assays = <<>> \/ acc.err # "none" THEN acc
    ELSE PipeEach(PipeAppend(acc, PipeOne(acc.self, acc.tables, Head(assays),
                                          {}, q)),
                  Tail(assays), q)

\* a list comprehension that raised returns nothing
PipeListReturn(r) == IF r.err = "none" THEN r ELSE [r EXCEPT !.ret = <<>>]

\* Filter.pipe; Assay = [list, ids]: a list of tables, or the one table ids[1]
Filter_pipe(s, tbl, Assay, kwargs, q) ==
    IF Assay.list
    THEN PipeListReturn(PipeEach([self |-> s, tables |-> tbl, err |-> "none",
                                  ret |-> <<>>, faulty |-> <<>>, trace |-> <<>>],
                                 Assay.ids, q))
    ELSE PipeOne(s, tbl, Assay.ids[1], kwargs, q)

----------------------------------------------------------------------------
(* The module-level function filter() *)

\* lim is <<>> for None, <<x>> for a number, <<x, y>> for a tuple or list
FnSetLim(s, lim) ==
    IF lim # <<>>
    THEN IF Len(lim) = 2
         THEN Filter_set_lim(s, None, lim[1], lim[2])
         ELSE Filter_set_lim(s, lim[1], None, None)
    ELSE s

FnSetAnchor(s, anchor) ==
    IF anchor.k # "none" THEN RangeFilter_set_anchor(s, anchor) ELSE s

\* what filter() returns, from pipe's r.  [f, tables, err, ret, faulty,
\* trace]: f the filter instance the function built, as a sequence of one,
\* or empty when it built none
FnReturn(r) ==
    [f |-> <<r.self>>, tables |-> r.tables, err |-> r.err,
     ret |-> r.ret, faulty |-> r.faulty, trace |-> r.trace]

\* For a mode other than "range" the local f is the class IQRFilter itself,
\* and the first method called on it (set_lim, or ignore_nan when lim is
\* None) lacks its self argument.
filter(tbl, assay, mode, lim, anchor, ignore_nan, drop_outliers, q) ==
    IF mode = "range"
    THEN FnReturn(
           Filter_pipe(
             Filter_drop_outliers(
               Filter_ignore_nan(
                 FnSetAnchor(FnSetLim(NewFilter("RangeFilter"), lim), anchor),
                 ignore_nan),
               drop_outliers),
             tbl, assay, {}, q))
    ELSE [f |-> <<>>, tables |-> tbl, err |-> "TypeError", ret |-> <<>>,
          faulty |-> <<>>, trace |-> <<>>]

----------------------------------------------------------------------------
(* The inputs the model draws from *)

AssayIds == {1, 2}

\* replicate group of each row of an assay's dataframe
Layout(a) == IF a = 1 THEN <<0, 0, 1, 1>> ELSE <<0, 0>>

CtValues == {1800, 2600, NaN}

MkTable(layout, cts) ==
    [i \in 1..Len(layout) |-> [index |-> i - 1, group |-> layout[i], Ct |-> cts[i]]]

\* assay 1: two groups, each a replicate of 18.0 and one of any value;
\* assay 2: one group, 18.0 and 26.0
InitTables(a) ==
    IF a = 1
    THEN {MkTable(Layout(a), c) :
            c \in {x \in [1..Len(Layout(a)) -> CtValues] :
                      x[1] = 1800 /\ x[3] = 1800}}
    ELSE {MkTable(Layout(a), <<1800, 2600>>)}

LimArgs == {None, 50}

LimInputs == {<<>>, <<200>>, <<800, 100>>}

AnchorSpecs ==
    {[k |-> "none", v |-> <<>>],
     [k |-> "num", v |-> <<1900>>],
     [k |-> "seq", v |-> <<1900, NaN>>],
     [k |-> "builtin", v |-> <<>>],
     [k |-> "function", v |-> <<>>]}

\* what pipe() is given: one table, or a list of tables
PipeArgs ==
    {[list |-> FALSE, ids |-> <<a>>] : a \in AssayIds}
    \cup {[list |-> TRUE, ids |-> <<1, 2>>]}

FnArgs ==
    {[list |-> FALSE, ids |-> <<1>>], [list |-> TRUE, ids |-> <<1, 2>>],
     [list |-> TRUE, ids |-> <<1, 1>>]}

NoCall ==
    [op |-> "none", err |-> "none", ret |-> <<>>, faulty |-> <<>>,
     trace |-> <<>>, list |-> FALSE, ids |-> <<>>, kwargs |-> {},
     mode |-> "", lim |-> <<>>]

----------------------------------------------------------------------------
(* The life of one filter instance *)

Init ==
    /\ self \in {NewFilter(c) : c \in {"RangeFilter", "IQRFilter"}}
    /\ tables \in {t \in [AssayIds -> UNION {InitTables(a) : a \in AssayIds}] :
                      \A a \in AssayIds : t[a] \in InitTables(a)}
    /\ last = NoCall
    /\ calls = 0
    /\ f = <<>>

link(a) ==
    /\ self' = Filter_link(self, a)
    /\ UNCHANGED <<tables, last, calls, f>>

filter_call(kwargs, q) ==
    /\ calls < MaxCalls
    /\ \E r \in {Filter_filter(self, tables, kwargs, q)} :
           /\ self' = r.self
           /\ tables' = r.tables
           /\ last' = [NoCall EXCEPT
                         !.op = "filter", !.err = r.err,
                         !.ret = IF r.err = "none" THEN <<self.Assay>> ELSE <<>>,
                         !.faulty = <<r.faulty>>,
                         !.trace = IF r.err = "none" /\ self.Assay # None
                                   THEN <<r.tables[self.Assay]>> ELSE <<>>,
                         !.ids = <<self.Assay>>, !.kwargs = kwargs]
    /\ calls' = calls + 1
    /\ UNCHANGED f

pipe(Assay, kwargs, q) ==
    /\ calls < MaxCalls
    /\ \E r \in {Filter_pipe(self, tables, Assay, kwargs, q)} :
           /\ self' = r.self
           /\ tables' = r.tables
           /\ last' = [NoCall EXCEPT
                         !.op = "pipe", !.err = r.err, !.ret = r.ret,
                         !.faulty = r.faulty, !.trace = r.trace,
                         !.list = Assay.list, !.ids = Assay.ids,
                         !.kwargs = kwargs]
    /\ calls' = calls + 1
    /\ UNCHANGED f

reset ==
    /\ self' = Filter_reset(self)
    /\ UNCHANGED <<tables, last, calls, f>>

ignore_nan(bool) ==
    /\ self' = Filter_ignore_nan(self, bool)
    /\ UNCHANGED <<tables, last, calls, f>>

drop_outliers(bool) ==
    /\ self' = Filter_drop_outliers(self, bool)
    /\ UNCHANGED <<tables, last, calls, f>>

set_lim(lim, upper, lower) ==
    /\ self' = Filter_set_lim(self, lim, upper, lower)
    /\ UNCHANGED <<tables, last, calls, f>>

set_anchor(anchor) ==
    /\ self.cls = "RangeFilter"
    /\ self' = RangeFilter_set_anchor(self, anchor)
    /\ UNCHANGED <<tables, last, calls, f>>

\* a call of the module-level function filter()
filter_fn(assay, mode, lim, anchor, ign, drop, q) ==
    /\ calls < MaxFnCalls
    /\ \E r \in {filter(tables, assay, mode, lim, anchor, ign, drop, q)} :
           /\ f' = r.f
           /\ tables' = r.tables
           /\ last' = [NoCall EXCEPT
                         !.op = "fn", !.err = r.err, !.ret = r.ret,
                         !.faulty = r.faulty, !.trace = r.trace,
                         !.list = assay.list, !.ids = assay.ids,
                         !.mode = mode, !.lim = lim]
    /\ calls' = calls + 1
    /\ UNCHANGED self

\* a filter instance configured by hand: link, filter, pipe, reset,
\* ignore_nan, drop_outliers, set_lim
Next ==
    \/ \E a \in AssayIds : link(a)
    \/ \E q \in QueryOutcomes : filter_call({}, q)
    \/ \E Assay \in PipeArgs, q \in QueryOutcomes : pipe(Assay, {}, q)
    \/ reset
    \/ \E bool \in BOOLEAN : ignore_nan(bool)
    \/ \E bool \in BOOLEAN : drop_outliers(bool)
    \/ \E lim \in LimArgs, upper \in {None}, lower \in {None} :
          set_lim(lim, upper, lower)

Spec == Init /\ [][Next]_vars

\* a RangeFilter with an anchor, run with keyword arguments
NextPipe ==
    \/ \E anchor \in AnchorSpecs : set_anchor(anchor)
    \/ \E a \in AssayIds : link(a)
    \/ \E kwargs \in Kwargs, q \in QueryOutcomes : filter_call(kwargs, q)
    \/ \E Assay \in PipeArgs, kwargs \in Kwargs, q \in QueryOutcomes :
          pipe(Assay, kwargs, q)

SpecPipe == Init /\ [][NextPipe]_vars

\* calls of the module-level function filter()
NextFn ==
    \E assay \in FnArgs, mode \in {"range", "iqr"}, lim \in LimInputs,
       anchor \in AnchorSpecs, ign \in BOOLEAN, drop \in BOOLEAN,
       q \in QueryOutcomes :
          filter_fn(assay, mode, lim, anchor, ign, drop, q)

\* no instance is configured by hand here; self stays as constructed
InitFn == Init /\ self = NewFilter("RangeFilter")

SpecFn == InitFn /\ [][NextFn]_vars

----------------------------------------------------------------------------
(* Properties of a filter instance configured by hand (Spec) *)

\* a step that is a call of Filter.filter or Filter.pipe
IsCall == calls' # calls

\* the rows a step appended to the ledger
Added == SubSeq(self'.filter_stats, Len(self.filter_stats) + 1,
                Len(self'.filter_stats))

IsPrefix(a, b) == Len(a) <= Len(b) /\ SubSeq(b, 1, Len(a)) = a

\* the anchor of a group when no anchor spec is set
DefaultAnchor(s, tmp) ==
    IF s.cls = "RangeFilter" THEN median(CtOf(tmp)) ELSE nanmedian(CtOf(tmp))

\* (assay, group, anchor) of every group of the table that the NaN policy
\* does not skip, in group order
GroupRuns(s, a, df) ==
    LET gs == SelectSeq(Assay_groups(df),
                 LAMBDA g : ~(s.ignore_nan
                              /\ IsNaN(DefaultAnchor(s, QueryGroup(df, g)))))
    IN  [i \in 1..Len(gs) |->
            <<a, gs[i], DefaultAnchor(s, QueryGroup(df, gs[i]))>>]

RECURSIVE GroupRunsOf(_, _, _)
GroupRunsOf(s, tbl, ids) ==
    IF ids = <<>> \/ Head(ids) = None THEN <<>>
    ELSE GroupRuns(s, Head(ids), tbl[Head(ids)]) \o GroupRunsOf(s, tbl, Tail(ids))

KeysOf(rows) ==
    [i \in 1..Len(rows) |-> <<rows[i].assay, rows[i].group, rows[i].anchor>>]

\* C1: filter() on a RangeFilter or IQRFilter with no table linked raises
\* FilterError("no_assay") and changes nothing: the ledger, the tables and
\* the before/after snapshots are as before the call.
C1_NoAssayRaises ==
    [][(IsCall /\ last'.op = "filter" /\ self.Assay = None)
         => /\ last'.err = "FilterError(no_assay)"
            /\ last'.ret = <<>>
            /\ self' = self
            /\ tables' = tables]_vars

C1_Witness ==
    /\ last.op = "filter"
    /\ last.err = "FilterError(no_assay)"
    /\ self.Assay = None
    /\ self.cls = "IQRFilter"
    /\ ~self.ignore_nan

\* C4: the ledger is append-only over link, filter, pipe, reset,
\* ignore_nan, drop_outliers and set_lim: a step that is no filter/pipe call
\* leaves it as it is, and a call appends, after the rows already there, one
\* row per group that the NaN policy does not skip, table by table and
\* group by group (all of them when the call returns, the first of them
\* when it raises).
C4_LedgerAppendOnly ==
    [][/\ IsPrefix(self.filter_stats, self'.filter_stats)
       /\ ~IsCall => self'.filter_stats = self.filter_stats
       /\ IsCall =>
            IF last'.err = "none"
            THEN KeysOf(Added) = GroupRunsOf(self, tables, last'.ids)
            ELSE IsPrefix(KeysOf(Added), GroupRunsOf(self, tables, last'.ids))]_vars

\* rows from two calls, kept through a reset
C4_Witness ==
    /\ calls = 2
    /\ Len(self.filter_stats) >= 4
    /\ self.faulty_indices
    /\ \E i \in 1..Len(self.filter_stats) : self.filter_stats[i].assay = 2
    /\ self.filter_stats[1].assay = 1

\* C9: a filter call that returns disposes of all the rows it flagged, of
\* every group, in one batch: with drop_outliers the flagged rows are gone
\* and the others are as they were; without it every row is kept, the
\* flagged ones with Ct NaN and the others as they were.  A call that
\* raises while examining the groups disposes of nothing.
C9_Disposal ==
    [][(IsCall /\ ~last'.list /\ self'.Assay # None) =>
         LET a == self'.Assay
             pre == tables[a]
             post == tables'[a]
             flagged == Range(last'.faulty[1])
         IN  /\ \A b \in AssayIds \ {a} : tables'[b] = tables[b]
             /\ last'.err # "none" => post = pre
             /\ (last'.err = "none" /\ self.drop_outliers) =>
                   /\ Len(post) = Len(pre) - Cardinality(flagged)
                   /\ post = SelectSeq(pre, LAMBDA r : r.index \notin flagged)
             /\ (last'.err = "none" /\ ~self.drop_outliers) =>
                   /\ Len(post) = Len(pre)
                   /\ \A i \in 1..Len(pre) :
                        IF pre[i].index \in flagged
                        THEN IsNaN(post[i].Ct) /\ post[i].index = pre[i].index
                        ELSE post[i] = pre[i]]_vars

\* rows of both groups flagged and dropped
C9_Witness ==
    /\ last.op = "filter"
    /\ last.err = "none"
    /\ self.drop_outliers
    /\ self.Assay = 1
    /\ Range(last.faulty[1]) = {0, 1, 2, 3}
    /\ tables[1] = <<>>

\* C2: with ignore_nan False, a call on a table with a group whose anchor
\* is NaN raises a FilterError, appends no ledger row with a NaN anchor and
\* leaves the table alone.
C2_NaNAnchorRaisesFilterError ==
    [][(/\ IsCall /\ ~last'.list /\ self'.Assay # None
        /\ ~self.ignore_nan
        /\ \E i \in 1..Len(GroupRunsOf(self, tables, <<self'.Assay>>)) :
              IsNaN(GroupRunsOf(self, tables, <<self'.Assay>>)[i][3]))
         => /\ last'.err = "FilterError(nan_anchor)"
            /\ \A i \in 1..Len(Added) : ~IsNaN(Added[i].anchor)
            /\ tables' = tables]_vars

----------------------------------------------------------------------------
(* Properties of the function filter() (SpecFn) *)

InWindow(ct, lo, hi) == ~IsNaN(ct) /\ lo <= ct /\ ct <= hi

OutsideWindow(ct, lo, hi) == ~IsNaN(ct) /\ (ct < lo \/ ct > hi)

\* a step in which a RangeFilter ran on one table and returned
RangeRunReturned ==
    /\ last'.op = "fn" /\ last'.mode = "range" /\ ~last'.list
    /\ last'.err = "none"

\* what C3 and its amendment share: in every group with a finite anchor
\* the flagged rows were strictly outside the window and the retained rows
\* are still in the table with their values; KeepsNaN tells whether a
\* retained row may hold NaN
WindowHolds(KeepsNaN) ==
    LET a == last'.ids[1]
        pre == tables[a]
        post == tables'[a]
        flt == f'[1]
        flagged == Range(last'.faulty[1])
    IN  \A k \in 1..Len(flt.filter_stats) :
          LET row == flt.filter_stats[k]
              lo == row.anchor - flt.lower
              hi == row.anchor + flt.upper
          IN  ~IsNaN(row.anchor) =>
                \A i \in 1..Len(pre) :
                  pre[i].group = row.group =>
                    IF pre[i].index \in flagged
                    THEN OutsideWindow(pre[i].Ct, lo, hi)
                    ELSE /\ \E j \in 1..Len(post) : post[j] = pre[i]
                         /\ \/ InWindow(pre[i].Ct, lo, hi)
                            \/ KeepsNaN /\ IsNaN(pre[i].Ct)

\* C3 as stated: after RangeFilter.filter() returns, in every group with a
\* finite anchor every retained row has a value inside
\* [anchor - lower, anchor + upper] and every excluded row had a value
\* strictly outside it.
C3_RetainedInsideWindow == [][RangeRunReturned => WindowHolds(FALSE)]_vars

\* C3 amended: after RangeFilter.filter() returns, in every group with a
\* finite anchor every retained row whose value is not NaN has a value
\* inside [anchor - lower, anchor + upper], and every excluded row had a
\* value strictly outside it; rows on a bound and rows holding NaN are
\* never excluded.
C3_RetainedInsideWindowOrNaN == [][RangeRunReturned => WindowHolds(TRUE)]_vars

\* anchor 19.0 with limits (8.0, 1.0): 18.0 sits on the lower bound and is
\* retained beside a NaN row, nothing is flagged
C3_Witness ==
    /\ last.op = "fn" /\ last.mode = "range" /\ ~last.list /\ last.err = "none"
    /\ last.lim = <<800, 100>>
    /\ f[1].anchor.k = "num"
    /\ last.faulty[1] = <<>>
    /\ \E i \in 1..Len(tables[1]) : tables[1][i].Ct = 1800
    /\ \E i \in 1..Len(tables[1]) : tables[1][i].Ct = 2600
    /\ \E i \in 1..Len(tables[1]) : IsNaN(tables[1][i].Ct)

\* the function ran one RangeFilter over the list [assay 1, assay 1] without
\* dropping, and the first pass returned
SecondPass ==
    /\ last.op = "fn" /\ last.mode = "range"
    /\ last.ids = <<1, 1>>
    /\ ~f[1].drop_outliers
    /\ Len(last.trace) >= 1

\* C8 as stated: a second pass of the same RangeFilter, drop_outliers
\* False, over a table it has filtered returns, flags no row and leaves
\* every value as it was.
C8_SecondPassReturnsUnchanged ==
    SecondPass =>
        /\ last.err = "none"
        /\ Len(last.trace) = 2
        /\ last.faulty[2] = <<>>
        /\ last.trace[2] = last.trace[1]

\* C8 amended: the second pass flags no row and leaves every value as it
\* was; it returns when ignore_nan is True (with ignore_nan False it may
\* raise on a group whose anchor is NaN).
C8_SecondPassFlagsNothing ==
    SecondPass =>
        /\ Len(last.faulty) = 2
        /\ last.faulty[2] = <<>>
        /\ tables[1] = last.trace[1]
        /\ f[1].ignore_nan =>
              /\ last.err = "none"
              /\ Len(last.trace) = 2
              /\ last.trace[2] = last.trace[1]

\* the first pass masked rows, the second met their group with a NaN median
C8_Witness ==
    /\ SecondPass
    /\ last.err = "none"
    /\ f[1].anchor.k = "none"
    /\ f[1].ignore_nan
    /\ Len(last.faulty[1]) = 2
    /\ last.faulty[2] = <<>>
    /\ Len(f[1].filter_stats) = 3

\* C5: filter(assay, mode, ...) builds a RangeFilter for mode "range" and
\* an IQRFilter for mode "iqr", and what it returns has the shape of its
\* input.
C5_FnBuildsStrategy ==
    last.op = "fn" =>
        /\ Len(f) = 1
        /\ f[1].cls = IF last.mode = "range" THEN "RangeFilter" ELSE "IQRFilter"
        /\ last.err = "none" => last.ret = last.ids

\* C6: whatever the kind of the anchor spec, RangeFilter resolves an anchor
\* from it (a number gives that number, a list, tuple or dict its entry
\* for the group) or the spec's own error propagates.
C6_AnchorResolved ==
    (last.op = "fn" /\ last.mode = "range") =>
        /\ last.err # "UnboundLocalError"
        /\ \A k \in 1..Len(f[1].filter_stats) :
              LET row == f[1].filter_stats[k]
              IN  /\ f[1].anchor.k = "num" => row.anchor = f[1].anchor.v[1]
                  /\ f[1].anchor.k = "seq" =>
                        row.anchor = f[1].anchor.v[row.group + 1]

\* C10: in filter(), a number lim sets upper and lower to it, and a
\* two-element lim sets upper to lim[0] and lower to lim[1], so that in
\* range mode the window of a group is [anchor - lim[1], anchor + lim[0]].
C10_LimPositional ==
    (last.op = "fn" /\ last.lim # <<>>) =>
        LET up == last.lim[1]
            lo == last.lim[Len(last.lim)]
        IN  /\ Len(f) = 1
            /\ f[1].upper = up
            /\ f[1].lower = lo
            /\ last.mode = "range" =>
                  \A k \in 1..Len(f[1].filter_stats) :
                     LET row == f[1].filter_stats[k]
                     IN  /\ row.upper = FAdd(row.anchor, up)
                         /\ row.lower = FSub(row.anchor, lo)

----------------------------------------------------------------------------
(* Filter.pipe against link followed by filter (SpecPipe) *)

\* link(t) then filter(**kwargs) for each t of ids in turn, until one raises
RECURSIVE LinkThenFilter(_, _, _, _)
LinkThenFilter(acc, ids, kwargs, q) ==
    IF ids = <<>> \/ acc.err # "none" THEN acc
    ELSE LET r == Filter_filter(Filter_link(acc.self, Head(ids)), acc.tables,
                                kwargs, q)
         IN  LinkThenFilter([self |-> r.self, tables |-> r.tables, err |-> r.err],
                            Tail(ids), kwargs, q)

\* C7: pipe(tables, **options) on a list does what link(t) followed by
\* filter(**options) does for each t in order: same tables, same ledger,
\* same outcome, the tables returned in input order.
C7_PipeIsLinkThenFilter ==
    [][(IsCall /\ last'.op = "pipe" /\ last'.list) =>
         \E q \in QueryOutcomes :
            LET r == LinkThenFilter([self |-> self, tables |-> tables,
                                     err |-> "none"],
                                    last'.ids, last'.kwargs, q)
            IN  /\ self' = r.self
                /\ tables' = r.tables
                /\ last'.err = r.err
                /\ r.err = "none" => last'.ret = last'.ids]_vars

====
